---- MODULE Spec2Model ----
(***************************************************************************)
(* Battery-constrained layered BFS exploration of a grid planet by a       *)
(* rover (src/main.py, map_surface_with_battery_constraint and helpers).   *)
(* The rover and the planet (rover.py, planet_intel.py) are consumed only  *)
(* through move(direction) -> (success, reason) and get_current_location.  *)
(*                                                                         *)
(* One behaviour of Spec is one call of the explorer on one planet with    *)
(* one battery capacity; every rover.move call is one step.                *)
(***************************************************************************)
EXTENDS Integers, Sequences, FiniteSets, TLC

\* ------------------------------------------------------------------------
\* Program constants
\* ------------------------------------------------------------------------
FULL_BATTERY == 20

DirOrder == <<"N", "S", "E", "W">>

DIRS == [N |-> <<-1, 0>>, S |-> <<1, 0>>, E |-> <<0, 1>>, W |-> <<0, -1>>]

OPPOSITE == [N |-> "S", S |-> "N", E |-> "W", W |-> "E"]

None == <<>>

home == <<0, 0>>

\* ------------------------------------------------------------------------
\* Bounds of the model
\* ------------------------------------------------------------------------
\* capacities 0..MaxB are explored besides the program's FULL_BATTERY
MaxB == 5

\* the maps given to _sparse_to_dense on its own have their keys in a box of
\* DenseRows x DenseCols coordinates
DenseRows == 2

DenseCols == 2

Capacities == (0..MaxB) \cup {FULL_BATTERY}

\* ------------------------------------------------------------------------
\* Planets: fixed grids of terrain characters with one 'H' cell
\* ------------------------------------------------------------------------
RowPlanet == << <<"H", ".", ".", ".", "X">> >>

OpenPlanet ==
    << <<"H", ".", ".", ".", ".">>,
       <<".", ".", ".", ".", ".">>,
       <<".", ".", ".", ".", ".">>,
       <<".", ".", ".", ".", ".">>,
       <<".", ".", ".", ".", ".">> >>

CenterPlanet ==
    << <<".", ".", ".">>,
       <<".", "H", ".">>,
       <<".", ".", ".">> >>

ForkPlanet ==
    << <<"H", ".", ".", ".", ".", ".", ".", ".", ".", ".", ".">>,
       <<"X", "X", "X", "X", "X", "X", "X", "X", "X", ".", "X">> >>

PondPlanet ==
    << <<".", "w", "X", ".">>,
       <<"X", "H", ".", ".">>,
       <<".", ".", "X", "w">> >>

LedgePlanet ==
    << <<"H", ".", ".">>,
       <<".", ".", "X">>,
       <<".", ".", ".">> >>

Planets ==
    <<RowPlanet, OpenPlanet, CenterPlanet, ForkPlanet, PondPlanet, LedgePlanet>>

VARIABLES
    planet,         \* index of the planet the rover is bound to
    B,              \* full battery capacity of the run
    roverPos,       \* rover: physical <<row, col>> in the planet's grid
    battery,        \* rover: remaining battery
    explored,       \* Discovered-Map: coordinate -> symbol
    parents,        \* Parent-Map: coordinate -> parent coordinate or None
    frontier,       \* tiles of the current layer
    next_frontier,  \* tiles discovered for the next layer
    radius,         \* BFS layer of the frontier
    ti,             \* position of the for-loop over frontier
    path,           \* directions from home to the current tile
    k,              \* position of _travel in its path
    di,             \* position of the for-loop over _neighbours
    pc,             \* control point of the explorer
    issued,         \* number of rover.move calls issued so far
    refused,        \* number of moves refused for an exhausted battery
    layer,          \* coordinate -> radius + 1 when it got its parent
    probed,         \* coordinate -> outcomes of the probe moves into it
    dense,          \* the dense map returned, None before the return
    visited,        \* map_surface: tiles dfs has entered
    stack           \* map_surface: the active calls of dfs, innermost last

vars == <<planet, B, roverPos, battery, explored, parents, frontier,
          next_frontier, radius, ti, path, k, di, pc, issued, refused, layer,
          probed, dense, visited, stack>>

\* what the battery-constrained explorer never touches before it returns
aux == <<dense, visited, stack>>

\* ------------------------------------------------------------------------
\* Planet and rover (external collaborators)
\* ------------------------------------------------------------------------
Grid == Planets[planet]

NumRows == Len(Grid)

NumCols == Len(Grid[1])

GridCells == {<<r, c>> : r \in 1..NumRows, c \in 1..NumCols}

InGrid(p) == p \in GridCells

Terrain(p) == Grid[p[1]][p[2]]

HomeCellOf(g) ==
    CHOOSE p \in {<<r, c>> : r \in 1..Len(g), c \in 1..Len(g[1])} :
        g[p[1]][p[2]] = "H"

HomeCell == HomeCellOf(Grid)

Add(p, d) == <<p[1] + DIRS[d][1], p[2] + DIRS[d][2]>>

\* rover.get_current_location(): the terrain symbol under the rover
get_current_location(pos) == Terrain(pos)

Recharge(dest, b, cap) == IF Terrain(dest) = "H" THEN cap ELSE b - 1

\* rover.move(d): the set of outcomes [ok, reason, pos, battery].
\* A successful move costs one unit and the rover is back at full battery
\* on the home cell.  A move is refused when the battery is exhausted, when
\* the destination is obstructed, or when it is outside of the grid; when
\* both the battery is exhausted and the destination is obstructed either
\* reason may be reported.
MoveOutcomes(pos, b, cap, d) ==
    LET dest == Add(pos, d)
        stay(rsn) == [ok |-> FALSE, reason |-> rsn, pos |-> pos, battery |-> b]
    IN  IF b <= 0
        THEN {stay("Out Of Battery")} \cup
             (IF InGrid(dest) /\ Terrain(dest) = "X"
              THEN {stay("Obstructed Space")} ELSE {})
        ELSE IF ~InGrid(dest) THEN {stay("Out Of Bounds")}
        ELSE IF Terrain(dest) = "X" THEN {stay("Obstructed Space")}
        ELSE {[ok |-> TRUE, reason |-> "None", pos |-> dest,
               battery |-> Recharge(dest, b, cap)]}

\* ------------------------------------------------------------------------
\* Helper functions of the explorer
\* ------------------------------------------------------------------------
Abs(x) == IF x < 0 THEN -x ELSE x

_manhattan(a, b) == Abs(a[1] - b[1]) + Abs(a[2] - b[2])

_roundtrip_cost_twice(path_to_tile, nbr, hm) ==
    2 * Len(path_to_tile) + 1 + _manhattan(nbr, hm)

_roundtrip_cost(path_to_tile, nbr, hm) ==
    Len(path_to_tile) + 1 + _manhattan(nbr, hm)

\* the (direction, coordinate) pairs in the order of DIRS
_neighbours(pos) ==
    [i \in 1..4 |-> <<DirOrder[i], Add(pos, DirOrder[i])>>]

\* the first direction of DIRS whose delta leads from prev to cur, if any
DirBetween(prev, cur) ==
    LET hits == {i \in 1..4 : Add(prev, DirOrder[i]) = cur}
    IN  IF hits = {} THEN <<>>
        ELSE <<DirOrder[CHOOSE i \in hits : \A j \in hits : i <= j]>>

\* the links in the order they are met from the target (not reversed)
RECURSIVE _reconstruct_path_unreversed(_, _)
_reconstruct_path_unreversed(target, par) ==
    IF par[target] = None THEN <<>>
    ELSE DirBetween(par[target], target)
             \o _reconstruct_path_unreversed(par[target], par)

RECURSIVE _reconstruct_path(_, _)
_reconstruct_path(target, par) ==
    IF par[target] = None THEN <<>>
    ELSE _reconstruct_path(par[target], par) \o DirBetween(par[target], target)

_reverse_path(p) == [i \in 1..Len(p) |-> OPPOSITE[p[Len(p) + 1 - i]]]

\* ------------------------------------------------------------------------
\* The explorer
\* ------------------------------------------------------------------------
Init ==
    /\ planet \in 1..Len(Planets)
    /\ B \in Capacities
    /\ roverPos = HomeCellOf(Planets[planet])
    /\ battery = B
    /\ explored = (home :> get_current_location(roverPos))
    /\ parents = (home :> None)
    /\ frontier = <<home>>
    /\ next_frontier = <<>>
    /\ radius = 0
    /\ ti = 1
    /\ path = <<>>
    /\ k = 1
    /\ di = 1
    /\ pc = "loop"
    /\ issued = 0
    /\ refused = 0
    /\ layer = (home :> 0)
    /\ probed = <<>>
    /\ dense = None
    /\ visited = {}
    /\ stack = <<>>

\* dict assignment m[key] = v
Put(m, key, v) ==
    [x \in (DOMAIN m) \cup {key} |-> IF x = key THEN v ELSE m[x]]

tile == frontier[ti]

\* the explorer's FULL_BATTERY: the capacity the rover was built with
BudgetOff == B + 2

Budget == B

\* while frontier and 2 * (radius + 1) <= FULL_BATTERY: (condition true)
LoopGuardUnbounded == frontier # <<>>

LoopGuard == frontier # <<>> /\ 2 * (radius + 1) <= Budget

LoopEnter ==
    /\ pc = "loop"
    /\ LoopGuard
    /\ next_frontier' = <<>>
    /\ ti' = 1
    /\ pc' = "tile"
    /\ UNCHANGED <<planet, B, roverPos, battery, explored, parents, frontier,
                   radius, path, k, di, issued, refused, layer>>
    /\ UNCHANGED <<probed, aux>>

\* the while condition is false: return
LoopExit ==
    /\ pc = "loop"
    /\ ~LoopGuard
    /\ pc' = "done"
    /\ UNCHANGED <<planet, B, roverPos, battery, explored, parents, frontier,
                   next_frontier, radius, ti, path, k, di, issued, refused,
                   layer>>
    /\ UNCHANGED <<probed, aux>>

\* for tile in frontier: path = _reconstruct_path(tile, parents)
BeginTile ==
    /\ pc = "tile"
    /\ ti <= Len(frontier)
    /\ path' = _reconstruct_path(tile, parents)
    /\ k' = 1
    /\ pc' = "travel_out"
    /\ UNCHANGED <<planet, B, roverPos, battery, explored, parents, frontier,
                   next_frontier, radius, ti, di, issued, refused, layer>>
    /\ UNCHANGED <<probed, aux>>

EndRoundSameRadius ==
    /\ pc = "tile"
    /\ ti > Len(frontier)
    /\ frontier' = next_frontier
    /\ pc' = "loop"
    /\ UNCHANGED <<planet, B, roverPos, battery, explored, parents,
                   next_frontier, radius, ti, path, k, di, issued, refused,
                   layer>>
    /\ UNCHANGED <<probed, aux>>

\* the frontier is used up: frontier = next_frontier; radius += 1
EndRound ==
    /\ pc = "tile"
    /\ ti > Len(frontier)
    /\ frontier' = next_frontier
    /\ radius' = radius + 1
    /\ pc' = "loop"
    /\ UNCHANGED <<planet, B, roverPos, battery, explored, parents,
                   next_frontier, ti, path, k, di, issued, refused, layer>>
    /\ UNCHANGED <<probed, aux>>

\* the effect of one rover.move call whose result the explorer ignores
BlindMove(d) ==
    \E res \in MoveOutcomes(roverPos, battery, B, d) :
        /\ roverPos' = res.pos
        /\ battery' = res.battery
        /\ issued' = issued + 1
        /\ refused' = IF res.reason = "Out Of Battery"
                      THEN refused + 1 ELSE refused

\* _travel(rover, path): one rover.move of the way out
TravelOutStep ==
    /\ pc = "travel_out"
    /\ k <= Len(path)
    /\ BlindMove(path[k])
    /\ k' = k + 1
    /\ UNCHANGED <<planet, B, explored, parents, frontier, next_frontier,
                   radius, ti, path, di, pc, layer>>
    /\ UNCHANGED <<probed, aux>>

\* _travel(rover, path) returns; the loop over _neighbours(tile) starts
TravelOutDone ==
    /\ pc = "travel_out"
    /\ k > Len(path)
    /\ di' = 1
    /\ pc' = "probe"
    /\ UNCHANGED <<planet, B, roverPos, battery, explored, parents, frontier,
                   next_frontier, radius, ti, path, k, issued, refused, layer>>
    /\ UNCHANGED <<probed, aux>>

\* a refused probe: only an obstruction is recorded
RecordFailureAny(m, nbr, reason) == Put(m, nbr, "X")

RecordFailure(m, nbr, reason) ==
    IF reason = "Obstructed Space" THEN Put(m, nbr, "X") ELSE m

\* if nbr in explored
KnownNever(nbr) == FALSE

Known(nbr) == nbr \in DOMAIN explored

ProbeDir == _neighbours(tile)[di][1]

ProbeNbrFar == Add(_neighbours(tile)[di][2], ProbeDir)

ProbeNbr == _neighbours(tile)[di][2]

\* the outcomes the probe moves into nbr have had so far
Outcomes(nbr) == IF nbr \in DOMAIN probed THEN probed[nbr] ELSE {}

\* one iteration of "for d, nbr in _neighbours(tile)" up to the step back
Probe ==
    /\ pc = "probe"
    /\ di <= 4
    /\ IF Known(ProbeNbr)
       THEN /\ di' = di + 1
            /\ UNCHANGED <<roverPos, battery, explored, parents,
                           next_frontier, pc, issued, refused, layer, probed>>
       ELSE IF _roundtrip_cost(path, ProbeNbr, home) > Budget
       THEN /\ di' = di + 1
            /\ UNCHANGED <<roverPos, battery, explored, parents,
                           next_frontier, pc, issued, refused, layer, probed>>
       ELSE \E res \in MoveOutcomes(roverPos, battery, B, ProbeDir) :
            /\ roverPos' = res.pos
            /\ battery' = res.battery
            /\ issued' = issued + 1
            /\ refused' = IF res.reason = "Out Of Battery"
                          THEN refused + 1 ELSE refused
            /\ probed' = Put(probed, ProbeNbr,
                             Outcomes(ProbeNbr) \cup {res.reason})
            /\ IF ~res.ok
               THEN /\ explored' = RecordFailure(explored, ProbeNbr, res.reason)
                    /\ di' = di + 1
                    /\ UNCHANGED <<parents, next_frontier, pc, layer>>
               ELSE /\ explored' = Put(explored, ProbeNbr,
                                       get_current_location(res.pos))
                    /\ parents' = Put(parents, ProbeNbr, tile)
                    /\ next_frontier' = Append(next_frontier, ProbeNbr)
                    /\ layer' = Put(layer, ProbeNbr, radius + 1)
                    /\ pc' = "step_back"
                    /\ di' = di
    /\ UNCHANGED <<planet, B, frontier, radius, ti, path, k, aux>>

\* rover.move(OPPOSITE[d]): step back to the parent
StepBack ==
    /\ pc = "step_back"
    /\ BlindMove(OPPOSITE[ProbeDir])
    /\ di' = di + 1
    /\ pc' = "probe"
    /\ UNCHANGED <<planet, B, explored, parents, frontier, next_frontier,
                   radius, ti, path, k, layer>>
    /\ UNCHANGED <<probed, aux>>

\* all four directions are done: _travel(rover, _reverse_path(path)) starts
ProbeDone ==
    /\ pc = "probe"
    /\ di > 4
    /\ k' = 1
    /\ pc' = "travel_back"
    /\ UNCHANGED <<planet, B, roverPos, battery, explored, parents, frontier,
                   next_frontier, radius, ti, path, di, issued, refused,
                   layer>>
    /\ UNCHANGED <<probed, aux>>

\* _travel(rover, _reverse_path(path)): one rover.move of the way home
TravelBackStep ==
    /\ pc = "travel_back"
    /\ k <= Len(path)
    /\ BlindMove(_reverse_path(path)[k])
    /\ k' = k + 1
    /\ UNCHANGED <<planet, B, explored, parents, frontier, next_frontier,
                   radius, ti, path, di, pc, layer>>
    /\ UNCHANGED <<probed, aux>>

\* the return travel is over: next tile of the frontier
TravelBackDone ==
    /\ pc = "travel_back"
    /\ k > Len(path)
    /\ ti' = ti + 1
    /\ pc' = "tile"
    /\ UNCHANGED <<planet, B, roverPos, battery, explored, parents, frontier,
                   next_frontier, radius, path, k, di, issued, refused, layer>>
    /\ UNCHANGED <<probed, aux>>

\* ------------------------------------------------------------------------
\* Map assembly
\* ------------------------------------------------------------------------
SetMin(S) == CHOOSE x \in S : \A y \in S : x <= y

SetMax(S) == CHOOSE x \in S : \A y \in S : y <= x

\* all(ch == '?' for ch in row)
AllUnknown(row) == \A i \in 1..Len(row) : row[i] = "?"

\* while grid and all(...grid[0]): grid.pop(0)
RECURSIVE DropHead(_)
DropHead(g) ==
    IF g # <<>> /\ AllUnknown(g[1]) THEN DropHead(Tail(g)) ELSE g

\* while grid and all(...grid[-1]): grid.pop()
RECURSIVE DropLast(_)
DropLast(g) ==
    IF g # <<>> /\ AllUnknown(g[Len(g)])
    THEN DropLast(SubSeq(g, 1, Len(g) - 1)) ELSE g

\* list(map(list, zip(*grid)))
Transpose(g) ==
    IF g = <<>> THEN <<>>
    ELSE [j \in 1..Len(g[1]) |-> [i \in 1..Len(g) |-> g[i][j]]]

_trim_unknown_border_none(grid) == grid

_trim_unknown_border(grid) ==
    LET rows == DropLast(DropHead(grid))
    IN  IF rows = <<>> THEN << <<>> >>
        ELSE Transpose(DropLast(DropHead(Transpose(rows))))

_sparse_to_dense(m) ==
    LET in_bounds == {pos \in DOMAIN m : m[pos] # "X"}
    IN  IF in_bounds = {} THEN << <<>> >>
        ELSE LET min_r == SetMin({pos[1] : pos \in in_bounds})
                 max_r == SetMax({pos[1] : pos \in in_bounds})
                 min_c == SetMin({pos[2] : pos \in in_bounds})
                 max_c == SetMax({pos[2] : pos \in in_bounds})
                 h == max_r - min_r + 1
                 w == max_c - min_c + 1
                 grid == [rr \in 1..h |-> [cc \in 1..w |->
                            LET pos == <<min_r + rr - 1, min_c + cc - 1>>
                            IN  IF pos \in DOMAIN m THEN m[pos] ELSE "?"]]
             IN  _trim_unknown_border(grid)

\* return _sparse_to_dense(explored)
Return ==
    /\ pc = "done"
    /\ dense' = _sparse_to_dense(explored)
    /\ pc' = "returned"
    /\ UNCHANGED <<planet, B, roverPos, battery, explored, parents, frontier,
                   next_frontier, radius, ti, path, k, di, issued, refused,
                   layer, probed, visited, stack>>

\* the while loop of the explorer
Explore ==
    \/ LoopEnter
    \/ LoopExit
    \/ BeginTile
    \/ EndRound
    \/ TravelOutStep
    \/ TravelOutDone
    \/ Probe
    \/ StepBack
    \/ ProbeDone
    \/ TravelBackStep
    \/ TravelBackDone

Next ==
    \/ Explore
    \/ Return

Spec == Init /\ [][Next]_vars

\* the explorer runs sequentially: its loop goes on until it is left
FairSpec == Spec /\ WF_vars(Explore)

\* ------------------------------------------------------------------------
\* _sparse_to_dense on its own: any sparse map with keys in a small box
\* ------------------------------------------------------------------------
DenseBox ==
    {<<r, c>> : r \in -1..(DenseRows - 2), c \in 0..(DenseCols - 1)}

DenseSymbols == {".", "X", "?"}

DenseInit ==
    /\ explored \in UNION {[S -> DenseSymbols] : S \in SUBSET DenseBox}
    /\ pc = "done"
    /\ planet = 1
    /\ B = FULL_BATTERY
    /\ roverPos = HomeCellOf(Planets[planet])
    /\ battery = B
    /\ parents = (home :> None)
    /\ frontier = <<>>
    /\ next_frontier = <<>>
    /\ radius = 0
    /\ ti = 1
    /\ path = <<>>
    /\ k = 1
    /\ di = 1
    /\ issued = 0
    /\ refused = 0
    /\ layer = (home :> 0)
    /\ probed = <<>>
    /\ dense = None
    /\ visited = {}
    /\ stack = <<>>

DenseNext == Return

DenseSpec == DenseInit /\ [][DenseNext]_vars

\* ------------------------------------------------------------------------
\* map_surface: depth-first mapping with an unlimited battery.  Coordinates
\* are cells of the planet's grid; a frame of stack is one call of dfs with
\* its tile, the position d of its loop over DIRS and where it stands:
\* "call" (dfs entered), "try" (about to move in direction d), "back" (the
\* call made for direction d is running or has returned).
\* ------------------------------------------------------------------------
REVERSE_ew == [N |-> "S", S |-> "N", E |-> "E", W |-> "W"]

REVERSE == [N |-> "S", S |-> "N", E |-> "W", W |-> "E"]

\* rover.move(d) of Rover(planet, math.inf): the battery never runs out, so
\* every move is made with a positive battery
UnlimitedMove(pos, d) == CHOOSE o \in MoveOutcomes(pos, 1, 1, d) : TRUE

in_bounds(pos) == pos[1] \in 1..NumRows /\ pos[2] \in 1..NumCols

Top == stack[Len(stack)]

Pop == SubSeq(stack, 1, Len(stack) - 1)

SetTop(f) == [stack EXCEPT ![Len(stack)] = f]

DfsInit ==
    /\ planet \in 1..Len(Planets)
    /\ roverPos = HomeCellOf(Planets[planet])
    /\ explored = <<>>
    /\ visited = {}
    /\ stack = <<[pos |-> HomeCellOf(Planets[planet]), d |-> 1, ph |-> "call"]>>
    /\ pc = "dfs"
    /\ B = FULL_BATTERY
    /\ battery = B
    /\ parents = (home :> None)
    /\ frontier = <<>>
    /\ next_frontier = <<>>
    /\ radius = 0
    /\ ti = 1
    /\ path = <<>>
    /\ k = 1
    /\ di = 1
    /\ issued = 0
    /\ refused = 0
    /\ layer = (home :> 0)
    /\ probed = <<>>
    /\ dense = None

\* if (r, c) in visited: return
DfsVisited ==
    /\ pc = "dfs"
    /\ stack # <<>>
    /\ Top.ph = "call"
    /\ Top.pos \in visited
    /\ stack' = Pop
    /\ UNCHANGED <<planet, B, roverPos, battery, explored, parents, frontier,
                   next_frontier, radius, ti, path, k, di, pc, issued, refused,
                   layer, probed, dense, visited>>

\* visited.add((r, c)); explored[(r, c)] = rover.get_current_location()
DfsEnter ==
    /\ pc = "dfs"
    /\ stack # <<>>
    /\ Top.ph = "call"
    /\ Top.pos \notin visited
    /\ visited' = visited \cup {Top.pos}
    /\ explored' = Put(explored, Top.pos, get_current_location(roverPos))
    /\ stack' = SetTop([Top EXCEPT !.ph = "try", !.d = 1])
    /\ UNCHANGED <<planet, B, roverPos, battery, parents, frontier,
                   next_frontier, radius, ti, path, k, di, pc, issued, refused,
                   layer, probed, dense>>

\* one iteration of "for d, (dr, dc) in DIRS.items()" up to the recursive
\* call: the move, and the 'X' of a refused move into the grid
DfsTry ==
    /\ pc = "dfs"
    /\ stack # <<>>
    /\ Top.ph = "try"
    /\ Top.d <= 4
    /\ LET dir == DirOrder[Top.d]
           nbr == Add(Top.pos, dir)
           res == UnlimitedMove(roverPos, dir)
       IN  /\ roverPos' = res.pos
           /\ issued' = issued + 1
           /\ probed' = Put(probed, nbr, Outcomes(nbr) \cup {res.reason})
           /\ IF res.ok
              THEN /\ stack' = Append(SetTop([Top EXCEPT !.ph = "back"]),
                                      [pos |-> nbr, d |-> 1, ph |-> "call"])
                   /\ UNCHANGED explored
              ELSE /\ explored' = IF in_bounds(nbr) /\ nbr \notin DOMAIN explored
                                  THEN Put(explored, nbr, "X")
                                  ELSE explored
                   /\ stack' = SetTop([Top EXCEPT !.d = Top.d + 1])
    /\ UNCHANGED <<planet, B, battery, parents, frontier, next_frontier,
                   radius, ti, path, k, di, pc, refused, layer, dense, visited>>

\* the call dfs(nr, nc) has returned: rover.move(REVERSE[d])
DfsBack ==
    /\ pc = "dfs"
    /\ stack # <<>>
    /\ Top.ph = "back"
    /\ roverPos' = UnlimitedMove(roverPos, REVERSE[DirOrder[Top.d]]).pos
    /\ issued' = issued + 1
    /\ stack' = SetTop([Top EXCEPT !.ph = "try", !.d = Top.d + 1])
    /\ UNCHANGED <<planet, B, battery, explored, parents, frontier,
                   next_frontier, radius, ti, path, k, di, pc, refused, layer,
                   probed, dense, visited>>

\* the loop over DIRS is over: dfs returns
DfsLoopEnd ==
    /\ pc = "dfs"
    /\ stack # <<>>
    /\ Top.ph = "try"
    /\ Top.d > 4
    /\ stack' = Pop
    /\ UNCHANGED <<planet, B, roverPos, battery, explored, parents, frontier,
                   next_frontier, radius, ti, path, k, di, pc, issued, refused,
                   layer, probed, dense, visited>>

\* dfs(*start) has returned: return _sparse_to_dense(explored)
DfsMapReturn ==
    /\ pc = "dfs"
    /\ stack = <<>>
    /\ dense' = _sparse_to_dense(explored)
    /\ pc' = "returned"
    /\ UNCHANGED <<planet, B, roverPos, battery, explored, parents, frontier,
                   next_frontier, radius, ti, path, k, di, issued, refused,
                   layer, probed, visited, stack>>

DfsNext ==
    \/ DfsVisited
    \/ DfsEnter
    \/ DfsTry
    \/ DfsBack
    \/ DfsLoopEnd
    \/ DfsMapReturn

DfsSpec == DfsInit /\ [][DfsNext]_vars

\* ------------------------------------------------------------------------
\* Properties
\* ------------------------------------------------------------------------
\* explorer coordinate (relative to home) of a cell of the grid
RelOf(q) == <<q[1] - HomeCell[1], q[2] - HomeCell[2]>>

FreeKeys == {p \in DOMAIN explored : explored[p] # "X"}

\* cells of the grid reachable from the home cell by at most n moves over
\* unobstructed cells
RECURSIVE WithinSteps(_)
WithinSteps(n) ==
    IF n = 0 THEN {HomeCell}
    ELSE LET prev == WithinSteps(n - 1)
         IN  prev \cup {q \in GridCells :
                          /\ Terrain(q) # "X"
                          /\ \E i \in 1..4 : Add(q, DirOrder[i]) \in prev}

\* number of parent links from p to home; -1 when the links leave the map
\* or do not reach home within fuel links
RECURSIVE ChainLen(_, _)
ChainLen(p, fuel) ==
    IF p \notin DOMAIN parents THEN -1
    ELSE IF parents[p] = None THEN 0
    ELSE IF fuel = 0 THEN -1
    ELSE LET rest == ChainLen(parents[p], fuel - 1)
         IN  IF rest < 0 THEN -1 ELSE rest + 1

Chain(p) == ChainLen(p, Cardinality(DOMAIN parents))

\* C1: no move the explorer issues is ever refused because the battery is
\* exhausted (no excursion needs more than B successful moves).
C1_NeverRefusedForBattery == refused = 0

\* C2: whenever the explorer is between two frontier tiles, and when it has
\* terminated, the rover stands on the home cell.
C2_RoverHomeBetweenTiles ==
    pc \in {"loop", "tile", "done"} => roverPos = HomeCell

\* C3: every coordinate of the final Discovered-Map, free or obstructed, is
\* within Manhattan distance B/2 of home.
C3_FinalMapWithinHalfB ==
    pc = "done" => \A p \in DOMAIN explored : 2 * _manhattan(p, home) <= B

C3_Witness ==
    /\ pc = "done"
    /\ B > 0
    /\ \E p \in DOMAIN explored : 2 * _manhattan(p, home) = B
    /\ \E p \in DOMAIN explored : explored[p] = "X"

\* C4: at termination every free cell whose shortest unobstructed path from
\* home has length d with 2 * d <= B is in the Discovered-Map with its
\* terrain symbol.
C4_CoversReturnableRegion ==
    pc = "done" =>
        \A q \in WithinSteps(B \div 2) :
            /\ RelOf(q) \in DOMAIN explored
            /\ explored[RelOf(q)] = Terrain(q)

\* C6: radius (the number of rounds run) never exceeds floor(B/2), the
\* explorer stops only with an empty frontier or with 2 * (radius + 1) > B,
\* and every run does stop.
C6_Terminates ==
    /\ [](/\ radius <= B \div 2
          /\ pc = "done" => (frontier = <<>> \/ 2 * (radius + 1) > B))
    /\ <>(pc = "done")

C6_Witness ==
    /\ pc = "done"
    /\ frontier # <<>>
    /\ radius > 0
    /\ radius = B \div 2

\* C7: on the 1-row planet "H...X" with B = 20 the final Discovered-Map has
\* columns 0..3 of row 0 with their symbols, column 4 as obstructed, and no
\* other coordinate.
C7_RowPlanetMap ==
    (Grid = RowPlanet /\ B = FULL_BATTERY /\ pc = "done") =>
        /\ DOMAIN explored = {<<0, c>> : c \in 0..4}
        /\ \A c \in 0..3 : explored[<<0, c>>] = RowPlanet[1][c + 1]
        /\ explored[<<0, 4>>] = "X"

C7_Witness ==
    /\ Grid = RowPlanet
    /\ B = FULL_BATTERY
    /\ pc = "done"
    /\ issued > 0

\* C8: when 2 > B the explorer issues no move and the Discovered-Map is
\* exactly home with the symbol the rover reports there.
C8_NoMoveBelowTwo ==
    B < 2 =>
        /\ issued = 0
        /\ explored = (home :> get_current_location(HomeCell))

C8_Witness == B = 0 /\ pc = "done"

\* C9: on the open 5x5 grid with home at the corner and B = 20 the
\* coordinates recorded as free are exactly the grid cells within Manhattan
\* distance 9 of home.
C9_OpenPlanetDiamond ==
    (Grid = OpenPlanet /\ B = FULL_BATTERY /\ pc = "done") =>
        FreeKeys = {RelOf(q) : q \in {g \in GridCells :
                                        _manhattan(RelOf(g), home) <= 9}}

C9_Witness ==
    /\ Grid = OpenPlanet
    /\ B = FULL_BATTERY
    /\ pc = "done"
    /\ <<4, 4>> \in FreeKeys

\* C10: the Parent-Map is a tree rooted at home: home maps to None, every
\* other key maps to a 4-adjacent key recorded as free, its parent links
\* reach home without a cycle in as many links as the layer at which it was
\* added, and every frontier tile of round radius is radius links from home.
C10_ParentTree ==
    /\ parents[home] = None
    /\ DOMAIN layer = DOMAIN parents
    /\ \A p \in (DOMAIN parents) \ {home} :
        /\ parents[p] \in DOMAIN parents
        /\ _manhattan(p, parents[p]) = 1
        /\ parents[p] \in FreeKeys
        /\ Chain(p) = layer[p]
    /\ \A i \in 1..Len(frontier) : Chain(frontier[i]) = radius

C10_Witness ==
    /\ pc = "probe"
    /\ radius >= 2
    /\ Len(frontier) >= 2
    /\ \E p \in DOMAIN parents : layer[p] = radius + 1

\* grid cell of an explorer coordinate
AbsOf(p) == <<p[1] + HomeCell[1], p[2] + HomeCell[2]>>

\* coordinate reached from start by the unit deltas of the directions of p
RECURSIVE ApplyPath(_, _)
ApplyPath(start, p) ==
    IF p = <<>> THEN start ELSE ApplyPath(Add(start, Head(p)), Tail(p))

\* cell on which a rover standing on pos with battery b ends after the moves
\* of p are issued in order (a refused move leaves it where it is)
RECURSIVE Walk(_, _, _)
Walk(pos, b, p) ==
    IF p = <<>> THEN pos
    ELSE LET res == CHOOSE o \in MoveOutcomes(pos, b, B, Head(p)) : TRUE
         IN  Walk(res.pos, res.battery, Tail(p))

\* C11: for every coordinate t of the Parent-Map, the deltas of
\* _reconstruct_path(t, parents) applied from home end at t, the path has as
\* many directions as t has parent links, and a rover that travels it from
\* home stands on the cell t.
C11_PathReachesTarget ==
    \A t \in DOMAIN parents :
        LET p == _reconstruct_path(t, parents)
        IN  /\ ApplyPath(home, p) = t
            /\ Len(p) = Chain(t)
            /\ Walk(HomeCell, B, p) = AbsOf(t)

C11_Witness ==
    /\ Grid = ForkPlanet
    /\ <<1, 9>> \in DOMAIN parents
    /\ Len(_reconstruct_path(<<1, 9>>, parents)) = 10

\* where the explorer believes the rover to be while it visits a tile
BelievedPos ==
    IF pc = "travel_out" THEN ApplyPath(home, SubSeq(path, 1, k - 1))
    ELSE IF pc = "probe" THEN tile
    ELSE IF pc = "step_back" THEN ProbeNbr
    ELSE ApplyPath(tile, SubSeq(_reverse_path(path), 1, k - 1))

\* C12: during the visit of a frontier tile every move of _travel and every
\* step back succeeds, so the rover is where the explorer believes it to be;
\* at each probe it stands on the frontier tile.
C12_RoverWhereBelieved ==
    pc \in {"travel_out", "probe", "step_back", "travel_back"} =>
        roverPos = AbsOf(BelievedPos)

\* a probe move is issued in this step
ProbeMoveIssued == pc = "probe" /\ issued' # issued

\* outcomes of a probe after which the explorer writes an entry
Answers == {"None", "Obstructed Space"}

\* C13 (as claimed): every coordinate a probe move was ever issued into,
\* whatever the outcome, has an entry in the Discovered-Map from then on.
C13_EveryAttemptRecorded ==
    \A c \in DOMAIN probed : c \in DOMAIN explored

\* C13 (amended): a coordinate a probe move was issued into has an entry in
\* the Discovered-Map from then on exactly when one of the probes into it
\* succeeded or was refused as "Obstructed Space"; a probe refused for any
\* other reason leaves no entry.
C13_AnsweredAttemptRecorded ==
    \A c \in DOMAIN probed :
        c \in DOMAIN explored <=> probed[c] \cap Answers # {}

C13_Witness ==
    /\ \E c \in DOMAIN probed : probed[c] = {"Obstructed Space"}
    /\ \E c \in DOMAIN probed : probed[c] = {"Out Of Bounds"}
    /\ \E c \in DOMAIN probed : probed[c] = {"None"}

\* C14: a coordinate whose probe was refused for a reason other than
\* "Obstructed Space" is never the target of a probe move again.
C14_TransientNotRetried ==
    [][ProbeMoveIssued => Outcomes(ProbeNbr) \subseteq Answers]_vars

\* C15: no key leaves the Discovered-Map or the Parent-Map, no stored value
\* changes, and no probe move is issued into a coordinate of the
\* Discovered-Map.
C15_MapsOnlyGrow ==
    [][/\ \A p \in DOMAIN explored :
            p \in DOMAIN explored' /\ explored'[p] = explored[p]
       /\ \A p \in DOMAIN parents :
            p \in DOMAIN parents' /\ parents'[p] = parents[p]
       /\ ProbeMoveIssued => ProbeNbr \notin DOMAIN explored]_vars

C15_Witness ==
    /\ pc = "probe"
    /\ di <= 4
    /\ ProbeNbr \in DOMAIN explored
    /\ explored[ProbeNbr] = "X"
    /\ Cardinality(DOMAIN parents) > 2

\* C16: every coordinate recorded as 'X' is 4-adjacent to a coordinate
\* recorded as free.
C16_ObstructionHasFreeNeighbour ==
    \A p \in DOMAIN explored :
        explored[p] = "X" => \E i \in 1..4 : Add(p, DirOrder[i]) \in FreeKeys

C16_Witness ==
    \E p \in DOMAIN explored :
        /\ explored[p] = "X"
        /\ _manhattan(p, home) >= 2

\* C18: whenever the explorer evaluates _roundtrip_cost for a neighbour of a
\* frontier tile (one that is not yet in the Discovered-Map) the result is at
\* most B: the path has radius directions, the neighbour is at most
\* radius + 1 from home, and the skip for cost > B never happens.
C18_GateNeverRejects ==
    (pc = "probe" /\ di <= 4 /\ ~Known(ProbeNbr)) =>
        /\ Len(path) = radius
        /\ _manhattan(ProbeNbr, home) <= radius + 1
        /\ _roundtrip_cost(path, ProbeNbr, home) <= B

C18_Witness ==
    /\ pc = "probe"
    /\ di <= 4
    /\ ~Known(ProbeNbr)
    /\ radius > 0
    /\ _roundtrip_cost(path, ProbeNbr, home) = B

\* C19: every coordinate recorded with a terrain symbol is a cell of the
\* planet with that terrain, and every coordinate recorded as 'X' is a
\* position the rover cannot enter.
C19_MapMatchesPlanet ==
    \A p \in DOMAIN explored :
        IF explored[p] = "X"
        THEN InGrid(AbsOf(p)) => Terrain(AbsOf(p)) = "X"
        ELSE InGrid(AbsOf(p)) /\ Terrain(AbsOf(p)) = explored[p]

\* the symbol of a coordinate in a dense rendering of m
CellOf(m, pos) == IF pos \in DOMAIN m THEN m[pos] ELSE "?"

NonObstructed(m) == {pos \in DOMAIN m : m[pos] # "X"}

BoxTop(m) == SetMin({pos[1] : pos \in NonObstructed(m)})

BoxLeft(m) == SetMin({pos[2] : pos \in NonObstructed(m)})

BoxHeight(m) == SetMax({pos[1] : pos \in NonObstructed(m)}) - BoxTop(m) + 1

BoxWidth(m) == SetMax({pos[2] : pos \in NonObstructed(m)}) - BoxLeft(m) + 1

\* g is rectangular and each of its border rows and columns has a cell
\* other than '?'
KnownBorders(g) ==
    /\ Len(g) >= 1
    /\ Len(g[1]) >= 1
    /\ \A i \in 1..Len(g) : Len(g[i]) = Len(g[1])
    /\ \A i \in {1, Len(g)} : \E j \in 1..Len(g[1]) : g[i][j] # "?"
    /\ \A j \in {1, Len(g[1])} : \E i \in 1..Len(g) : g[i][j] # "?"

\* g shows the coordinates of m from <<top, left>> on
Shows(g, m, top, left) ==
    \A i \in 1..Len(g) : \A j \in 1..Len(g[i]) :
        g[i][j] = CellOf(m, <<top + i - 1, left + j - 1>>)

HasKnownFree(m) == \E pos \in DOMAIN m : m[pos] \notin {"X", "?"}

\* C17 (as claimed): for a map with a non-obstructed entry whose symbol is
\* not '?', the dense grid is rectangular with known borders, shows the
\* recorded symbols, and has exactly the dimensions of the bounding box of
\* the non-obstructed coordinates (the trim removes nothing).
C17_DenseIsBoundingBox ==
    (pc = "returned" /\ HasKnownFree(explored)) =>
        /\ KnownBorders(dense)
        /\ Len(dense) = BoxHeight(explored)
        /\ Len(dense[1]) = BoxWidth(explored)
        /\ Shows(dense, explored, BoxTop(explored), BoxLeft(explored))

\* C17 (amended): for such a map the dense grid is rectangular with known
\* borders and shows the recorded symbols of a sub-rectangle of the bounding
\* box of the non-obstructed coordinates, so that obstructed coordinates
\* outside of the box do not appear; it is the whole bounding box when no
\* entry of the map has the symbol '?'.
C17_DenseWithinBoundingBox ==
    (pc = "returned" /\ HasKnownFree(explored)) =>
        /\ KnownBorders(dense)
        /\ \E top \in 0..(BoxHeight(explored) - 1) :
           \E left \in 0..(BoxWidth(explored) - 1) :
               /\ top + Len(dense) <= BoxHeight(explored)
               /\ left + Len(dense[1]) <= BoxWidth(explored)
               /\ Shows(dense, explored, BoxTop(explored) + top,
                        BoxLeft(explored) + left)
        /\ (\A pos \in DOMAIN explored : explored[pos] # "?") =>
               /\ Len(dense) = BoxHeight(explored)
               /\ Len(dense[1]) = BoxWidth(explored)

C17_Witness ==
    /\ pc = "returned"
    /\ HasKnownFree(explored)
    /\ Len(dense[1]) < BoxWidth(explored)
    /\ \E pos \in DOMAIN explored :
        explored[pos] = "X" /\ pos[1] >= BoxTop(explored) + BoxHeight(explored)

\* free cells of the grid 4-connected to the home cell through free cells
Connected == WithinSteps(NumRows * NumCols)

\* C20: when dfs returns every free cell 4-connected to the 'H' cell is in
\* explored with the symbol the rover reports there and the rover stands on
\* the home cell; at any time every cell of the grid into which a move was
\* refused is recorded as 'X', and the rover stands on the tile of the
\* innermost call of dfs once the call made from it has been undone.
C20_DfsMapsReachableSurface ==
    pc = "dfs" =>
        /\ stack = <<>> =>
            /\ roverPos = HomeCell
            /\ \A q \in Connected :
                q \in DOMAIN explored /\ explored[q] = Terrain(q)
        /\ \A q \in DOMAIN probed :
            (in_bounds(q) /\ "Obstructed Space" \in probed[q]) =>
                q \in DOMAIN explored /\ explored[q] = "X"
        /\ stack # <<>> =>
            roverPos = IF Top.ph = "back"
                       THEN Add(Top.pos, DirOrder[Top.d]) ELSE Top.pos

C20_Witness ==
    /\ pc = "dfs"
    /\ stack = <<>>
    /\ Grid = PondPlanet
    /\ \E q \in DOMAIN explored : explored[q] = "X"
    /\ \E q \in DOMAIN explored : explored[q] = "w"
    /\ \E q \in DOMAIN probed : ~in_bounds(q)

====
